---------------------------- MODULE Spec2Model ----------------------------
(***************************************************************************)
(* Model of the filter tree of usdb_syncer (gui/search_tree/item.py), of    *)
(* the song meta data and its JSON codec (usdb_song.py) and of the         *)
(* download bookkeeping of the song table (gui/song_table/song_table.py).  *)
(*                                                                         *)
(* The tree items are Python objects; `items` is the heap holding them: a  *)
(* sequence of records, an item's identity being its index.  References    *)
(* (parent, children) are indices into `items`.                            *)
(*                                                                         *)
(* Python values are modelled as follows:                                  *)
(*   - None | int  : <<>> for None, <<n>> for the integer n, wherever a    *)
(*                   value may be None (RatingVariant.value, the upper     *)
(*                   bound of a ViewsVariant); so `None == 0` is           *)
(*                   <<>> = <<0>>, which is FALSE as in Python;            *)
(*   - str         : a natural number standing for a distinct string       *)
(*                   (only equality of strings is ever used);              *)
(*   - tuple index : children[i] of the code is children[i + 1] here,      *)
(*                   row_in_parent and checked_children keep the code's    *)
(*                   0-based indices.                                      *)
(***************************************************************************)
EXTENDS Integers, Sequences, FiniteSets, TLC

VARIABLES
    items,            \* the heap of TreeItem objects
    called,           \* history: toggle_checked has been called on some item
    was_constrained,  \* history: some call has left a filter with a checked variant
    call,             \* the last call of a pure function: its inputs and its result
    toggle,           \* the toggle_checked call in progress, step by step
    pass,             \* the acceptance pass in progress, filter by filter
    songs,            \* TableModel.songs: the rows of the song table
    progress,         \* the Progress object: _running and _finished
    inflight,         \* per song id, the downloads handed to download_songs and not finished
    last              \* history: the last command or signal the song table has handled

treeVars == <<items, called, was_constrained>>

tableVars == <<songs, progress, inflight, last>>

vars == <<items, called, was_constrained, call, toggle, pass, songs, progress, inflight, last>>

---------------------------------------------------------------------------
(* Bounds of the model *)

\* number of distinct values each dynamic filter (artist, title, edition,
\* language) gets a variant for
NumDynamic == 1

---------------------------------------------------------------------------
(* Filter catalog and variants: item.py, Filter and the *Variant enums *)

None == <<>>

Some(n) == <<n>>

\* enum Filter, in declaration order
Filter == <<"ARTIST", "TITLE", "EDITION", "LANGUAGE", "GOLDEN_NOTES", "RATING", "VIEWS">>

\* enum RatingVariant: the members' values, in declaration order
RatingVariant ==
    << [cls |-> "RatingVariant", value |-> None],
       [cls |-> "RatingVariant", value |-> Some(1)],
       [cls |-> "RatingVariant", value |-> Some(2)],
       [cls |-> "RatingVariant", value |-> Some(3)],
       [cls |-> "RatingVariant", value |-> Some(4)],
       [cls |-> "RatingVariant", value |-> Some(5)] >>

\* enum GoldenNotesVariant
GoldenNotesVariant ==
    << [cls |-> "GoldenNotesVariant", value |-> FALSE],
       [cls |-> "GoldenNotesVariant", value |-> TRUE] >>

\* enum ViewsVariant: value = (lo, hi), hi possibly None
ViewsVariant ==
    << [cls |-> "ViewsVariant", value |-> [lo |-> 0,   hi |-> Some(100)]],
       [cls |-> "ViewsVariant", value |-> [lo |-> 100, hi |-> Some(200)]],
       [cls |-> "ViewsVariant", value |-> [lo |-> 200, hi |-> Some(300)]],
       [cls |-> "ViewsVariant", value |-> [lo |-> 300, hi |-> Some(400)]],
       [cls |-> "ViewsVariant", value |-> [lo |-> 400, hi |-> Some(500)]],
       [cls |-> "ViewsVariant", value |-> [lo |-> 500, hi |-> None]] >>

\* Filter.static_variants
static_variants(filter) ==
    CASE filter = "GOLDEN_NOTES" -> GoldenNotesVariant
      [] filter = "RATING" -> RatingVariant
      [] filter = "VIEWS" -> ViewsVariant
      [] filter \in {"ARTIST", "TITLE", "EDITION", "LANGUAGE"} -> <<>>

\* The str-based SongMatch class of a dynamic filter
DynamicMatchClass(filter) ==
    CASE filter = "ARTIST" -> "SongArtistMatch"
      [] filter = "TITLE" -> "SongTitleMatch"
      [] filter = "EDITION" -> "SongEditionMatch"
      [] filter = "LANGUAGE" -> "SongLanguageMatch"

\* The variants the tree builder supplies for a filter: the static ones, or one
\* per distinct value observed in the song collection
variants_of(filter) ==
    IF static_variants(filter) # <<>>
    THEN static_variants(filter)
    ELSE [k \in 1..NumDynamic |-> [cls |-> DynamicMatchClass(filter), value |-> k]]

---------------------------------------------------------------------------
(* Songs: SongData.data is a UsdbSong (usdb_song.py) *)

\* view counts around every bucket boundary
ViewsSamples == {0, 99, 100, 199, 200, 299, 300, 399, 400, 499, 500, 999}

\* string values: those that have a variant in the tree, and one that has none
Strings == 1..(NumDynamic + 1)

Ratings == 0..5

UsdbSong ==
    [artist : Strings, title : Strings, edition : Strings, language : Strings,
     golden_notes : BOOLEAN, rating : Ratings, views : ViewsSamples]

\* two songs that differ in every field
BaseSong ==
    [artist |-> 1, title |-> 1, edition |-> 1, language |-> 1,
     golden_notes |-> FALSE, rating |-> 0, views |-> 0]

OtherSong ==
    [artist |-> 2, title |-> 2, edition |-> 2, language |-> 2,
     golden_notes |-> TRUE, rating |-> 5, views |-> 999]

\* the songs that differ from song b in at most one field
Near(b) ==
    {b} \cup {[b EXCEPT !.artist = x] : x \in Strings}
        \cup {[b EXCEPT !.title = x] : x \in Strings}
        \cup {[b EXCEPT !.edition = x] : x \in Strings}
        \cup {[b EXCEPT !.language = x] : x \in Strings}
        \cup {[b EXCEPT !.golden_notes = x] : x \in BOOLEAN}
        \cup {[b EXCEPT !.rating = x] : x \in Ratings}
        \cup {[b EXCEPT !.views = x] : x \in ViewsSamples}

\* The songs the acceptance query is evaluated on: every value of every field
\* occurs, beside values the other filters accept and beside values they reject
Songs == Near(BaseSong) \cup Near(OtherSong)

\* a matches_song whose views buckets include their upper bound
matches_song_views_inclusive(data, song) ==
    CASE data.cls = "SongArtistMatch" -> data.value = song.artist
      [] data.cls = "SongTitleMatch" -> data.value = song.title
      [] data.cls = "SongEditionMatch" -> data.value = song.edition
      [] data.cls = "SongLanguageMatch" -> data.value = song.language
      [] data.cls = "RatingVariant" -> data.value = Some(song.rating)
      [] data.cls = "GoldenNotesVariant" -> data.value = song.golden_notes
      [] data.cls = "ViewsVariant" ->
            /\ data.value.lo <= song.views
            /\ (data.value.hi = None \/ song.views <= data.value.hi[1])

\* a matches_song whose views buckets exclude their lower bound
matches_song_views_exclusive(data, song) ==
    CASE data.cls = "SongArtistMatch" -> data.value = song.artist
      [] data.cls = "SongTitleMatch" -> data.value = song.title
      [] data.cls = "SongEditionMatch" -> data.value = song.edition
      [] data.cls = "SongLanguageMatch" -> data.value = song.language
      [] data.cls = "RatingVariant" -> data.value = Some(song.rating)
      [] data.cls = "GoldenNotesVariant" -> data.value = song.golden_notes
      [] data.cls = "ViewsVariant" ->
            /\ data.value.lo < song.views
            /\ (data.value.hi = None \/ song.views < data.value.hi[1])

\* SongMatch.matches_song, by class
matches_song(data, song) ==
    CASE data.cls = "SongArtistMatch" -> data.value = song.artist
      [] data.cls = "SongTitleMatch" -> data.value = song.title
      [] data.cls = "SongEditionMatch" -> data.value = song.edition
      [] data.cls = "SongLanguageMatch" -> data.value = song.language
      [] data.cls = "RatingVariant" -> data.value = Some(song.rating)
      [] data.cls = "GoldenNotesVariant" -> data.value = song.golden_notes
      [] data.cls = "ViewsVariant" ->
            /\ data.value.lo <= song.views
            /\ (data.value.hi = None \/ song.views < data.value.hi[1])

---------------------------------------------------------------------------
(* Song meta data and its JSON codec: usdb_song.py *)

\* UsdbSong.from_html, the rating: rating.count("star.png"), the rating cell
\* being modelled as the sequence of its image names
from_html_rating(images) == Cardinality({k \in DOMAIN images : images[k] = "star.png"})

\* SongId(value): a value object around an int; int and SongId are told apart
\* by a type tag
SongId(value) == [type |-> "SongId", v |-> value]

PyInt(value) == [type |-> "int", v |-> value]

\* the empty string (the edition of the song of the codec's test)
EmptyString == 0

\* the song ids of the model
SongIdValues == {1, 123}

\* UsdbSong objects with their song_id, among them one with an empty edition
UsdbSongObjects ==
    {[song_id |-> SongId(i), artist |-> s.artist, title |-> s.title,
      language |-> s.language, edition |-> s.edition,
      golden_notes |-> s.golden_notes, rating |-> s.rating, views |-> s.views] :
        i \in SongIdValues, s \in Songs \cup {[BaseSong EXCEPT !.edition = EmptyString]}}

\* UsdbSongEncoder.default on a SongId: int(o.value)
default_SongId(o) == PyInt(o.v)

\* UsdbSongEncoder.default on a UsdbSong, as json.dump uses it:
\* attrs.asdict(o, recurse=False) leaves the SongId in the dict, and the encoder
\* calls default again on it
UsdbSongEncoder(o) == [o EXCEPT !.song_id = default_SongId(o.song_id)]

\* a from_json that leaves the song_id as the int it finds
from_json_keeps_int(dct) == dct

\* UsdbSong.from_json, the object hook of json.load
from_json(dct) == [dct EXCEPT !.song_id = SongId(dct.song_id.v)]

---------------------------------------------------------------------------
(* Tree items: item.py, TreeItem / RootItem / FilterItem / VariantItem *)

\* attrs-generated constructors.  checked_children is a field of FilterItem
\* only; the other classes carry an unused empty set so that all heap records
\* have the same shape.
RootItem ==
    [cls |-> "RootItem", data |-> "None", parent |-> 0, row_in_parent |-> 0,
     children |-> <<>>, checked |-> FALSE, checkable |-> FALSE,
     checked_children |-> {}]

FilterItem(data, parent) ==
    [cls |-> "FilterItem", data |-> data, parent |-> parent, row_in_parent |-> 0,
     children |-> <<>>, checked |-> FALSE, checkable |-> FALSE,
     checked_children |-> {}]

VariantItem(data, parent) ==
    [cls |-> "VariantItem", data |-> data, parent |-> parent, row_in_parent |-> 0,
     children |-> <<>>, checked |-> FALSE, checkable |-> TRUE,
     checked_children |-> {}]

\* an add_child that takes the child count after the insertion as the row
add_child_counts_after(h, self, child) ==
    [h EXCEPT ![child].parent = self,
              ![child].row_in_parent = Len(h[self].children) + 1,
              ![self].children = Append(h[self].children, child)]

\* RootItem.add_child / FilterItem.add_child (same body)
add_child(h, self, child) ==
    [h EXCEPT ![child].parent = self,
              ![child].row_in_parent = Len(h[self].children),
              ![self].children = Append(h[self].children, child)]

\* uncheck_children that forgets the loop over the children
uncheck_children_keeps_child_flags(h, self) ==
    [h EXCEPT ![self].checked_children = {},
              ![self].checkable = FALSE,
              ![self].checked = FALSE]

\* an uncheck_children that unchecks every VariantItem of the tree
uncheck_children_everywhere(h, self) ==
    [n \in DOMAIN h |->
        IF h[n].cls = "VariantItem" THEN [h[n] EXCEPT !.checked = FALSE]
        ELSE IF n = self THEN [h[n] EXCEPT !.checked_children = {},
                                           !.checkable = FALSE,
                                           !.checked = FALSE]
        ELSE h[n]]

\* FilterItem.uncheck_children: the loop over self.children, then the clear and
\* the two flags
uncheck_children(h, self) ==
    LET kids == h[self].children
        RECURSIVE Loop(_, _)
        Loop(g, k) ==
            IF k > Len(kids) THEN g ELSE Loop([g EXCEPT ![kids[k]].checked = FALSE], k + 1)
    IN  [Loop(h, 1) EXCEPT ![self].checked_children = {},
                           ![self].checkable = FALSE,
                           ![self].checked = FALSE]

\* check_child that does not uncheck the siblings first
check_child_without_uncheck(h, self, child) ==
    LET h2 == [h EXCEPT ![self].checked_children = @ \cup {child}]
        h3 == [h2 EXCEPT ![self].checkable = TRUE]
        h4 == [h3 EXCEPT ![self].checked = TRUE]
    IN  [h4 EXCEPT ![h4[self].children[child + 1]].checked = TRUE]

\* check_child that does not set the child's own checked flag
check_child_without_child_flag(h, self, child) ==
    LET h1 == uncheck_children(h, self)
        h2 == [h1 EXCEPT ![self].checked_children = @ \cup {child}]
        h3 == [h2 EXCEPT ![self].checkable = TRUE]
    IN  [h3 EXCEPT ![self].checked = TRUE]

\* check_child that sets the filter's checked flag but not its checkable flag
check_child_without_checkable(h, self, child) ==
    LET h1 == uncheck_children(h, self)
        h2 == [h1 EXCEPT ![self].checked_children = @ \cup {child}]
        h4 == [h2 EXCEPT ![self].checked = TRUE]
    IN  [h4 EXCEPT ![h4[self].children[child + 1]].checked = TRUE]

\* check_child that sets the flags but does not record the index
check_child_without_index(h, self, child) ==
    LET h1 == uncheck_children(h, self)
        h3 == [h1 EXCEPT ![self].checkable = TRUE]
        h4 == [h3 EXCEPT ![self].checked = TRUE]
    IN  [h4 EXCEPT ![h4[self].children[child + 1]].checked = TRUE]

\* FilterItem.check_child
check_child(h, self, child) ==
    LET h1 == uncheck_children(h, self)
        h2 == [h1 EXCEPT ![self].checked_children = @ \cup {child}]
        h3 == [h2 EXCEPT ![self].checkable = TRUE]
        h4 == [h3 EXCEPT ![self].checked = TRUE]
    IN  [h4 EXCEPT ![h4[self].children[child + 1]].checked = TRUE]

\* FilterItem.check_child, its second statement: self.checked_children.add(child)
check_child_insert(h, self, child) ==
    [h EXCEPT ![self].checked_children = @ \cup {child}]

\* FilterItem.check_child, its third statement: the three flags
check_child_flags(h, self, child) ==
    LET h3 == [h EXCEPT ![self].checkable = TRUE]
        h4 == [h3 EXCEPT ![self].checked = TRUE]
    IN  [h4 EXCEPT ![h4[self].children[child + 1]].checked = TRUE]

\* a generic toggle that flips the checked flag of its item
TreeItem_toggle_checked_flips(h, self) == [h EXCEPT ![self].checked = ~@]

\* TreeItem.toggle_checked (inherited by RootItem)
TreeItem_toggle_checked(h, self) == h

\* a FilterItem.toggle_checked that flips the flag of an unchecked filter
FilterItem_toggle_checked_flips(h, self) ==
    IF h[self].checked
    THEN uncheck_children(h, self)
    ELSE [h EXCEPT ![self].checked = TRUE]

\* a FilterItem.toggle_checked that clears the index set and its own flags only
FilterItem_toggle_checked_shallow(h, self) ==
    IF h[self].checked
    THEN [h EXCEPT ![self].checked_children = {},
                   ![self].checkable = FALSE,
                   ![self].checked = FALSE]
    ELSE h

\* FilterItem.toggle_checked
FilterItem_toggle_checked(h, self) ==
    IF h[self].checked THEN uncheck_children(h, self) ELSE h

\* a VariantItem.toggle_checked that checks its item whatever its state
VariantItem_toggle_checked_always_checks(h, self) ==
    check_child(h, h[self].parent, h[self].row_in_parent)

\* VariantItem.toggle_checked
VariantItem_toggle_checked(h, self) ==
    IF h[self].checked
    THEN uncheck_children(h, h[self].parent)
    ELSE check_child(h, h[self].parent, h[self].row_in_parent)

\* toggle_checked, dispatched on the class of the item
toggle_checked(h, n) ==
    CASE h[n].cls = "FilterItem" -> FilterItem_toggle_checked(h, n)
      [] h[n].cls = "VariantItem" -> VariantItem_toggle_checked(h, n)
      [] OTHER -> TreeItem_toggle_checked(h, n)

\* FilterItem.is_checkable
is_checkable(h, self) == h[self].checked_children # {}

\* VariantItem.accepts_song
VariantItem_accepts_song(h, self, song) == matches_song(h[self].data, song)

\* an accepts_song without the shortcut for the empty set
accepts_song_without_shortcut(h, self, song) ==
    \E i \in h[self].checked_children :
        VariantItem_accepts_song(h, h[self].children[i + 1], song)

\* an accepts_song that asks every child once anything is checked
accepts_song_any_child(h, self, song) ==
    \/ h[self].checked_children = {}
    \/ \E k \in DOMAIN h[self].children :
          VariantItem_accepts_song(h, h[self].children[k], song)

\* an accepts_song that lets every song pass
accepts_song_always(h, self, song) == TRUE

\* FilterItem.accepts_song
accepts_song(h, self, song) ==
    \/ h[self].checked_children = {}
    \/ \E i \in h[self].checked_children :
          VariantItem_accepts_song(h, h[self].children[i + 1], song)

\* The acceptance query of the whole tree: the conjunction over the root's
\* FilterItems
accepts(h, song) ==
    \A k \in DOMAIN h[1].children : accepts_song(h, h[1].children[k], song)

---------------------------------------------------------------------------
(* Tree construction: root, then per filter of the catalog a FilterItem    *)
(* and its VariantItems, each appended with add_child                      *)

RECURSIVE AddVariants(_, _, _)
AddVariants(h, filter_item, datas) ==
    IF datas = <<>>
    THEN h
    ELSE LET id == Len(h) + 1
             h1 == Append(h, VariantItem(Head(datas), filter_item))
         IN  AddVariants(add_child(h1, filter_item, id), filter_item, Tail(datas))

RECURSIVE AddFilters(_, _)
AddFilters(h, filters) ==
    IF filters = <<>>
    THEN h
    ELSE LET id == Len(h) + 1
             h1 == Append(h, FilterItem(Head(filters), 1))
             h2 == add_child(h1, 1, id)
         IN  AddFilters(AddVariants(h2, id, variants_of(Head(filters))), Tail(filters))

BuildTree == AddFilters(<<RootItem>>, Filter)

Root == 1

FilterItems == {n \in DOMAIN items : items[n].cls = "FilterItem"}

VariantItems == {n \in DOMAIN items : items[n].cls = "VariantItem"}

---------------------------------------------------------------------------
(* The state machine: the UI calls toggle_checked on any item of the tree *)

\* every FilterItem has an empty checked_children set
AllUnconstrained(h) ==
    \A n \in DOMAIN h : h[n].cls = "FilterItem" => h[n].checked_children = {}

\* the history variables after a call that leaves the heap h
Record(h) ==
    /\ called' = TRUE
    /\ was_constrained' = (was_constrained \/ ~AllUnconstrained(h))

\* no pure function has been called
\* the song table as it is loaded: every song with the status NONE, no download
\* under way
NumSongs == 2

TableSongIds == 1..NumSongs

LoadedSongs == [row \in 1..NumSongs |-> [song_id |-> row, status |-> "NONE"]]

NoDownloads == [id \in TableSongIds |-> [queued |-> 0, started |-> 0]]

NoHandler ==
    [op |-> "none", notified |-> {}, song_id |-> 0, known |-> FALSE, error |-> "None",
     data |-> None]

TableIdle ==
    /\ songs = LoadedSongs
    /\ progress = [running |-> 0, finished |-> 0]
    /\ inflight = NoDownloads
    /\ last = NoHandler

NoCall == [fn |-> "none"]

\* the variables the tree operations do not touch
others == <<call, toggle, pass, songs, progress, inflight, last>>

\* everything but the tree, before anything has happened
NoToggle == [pc |-> "idle", self |-> 0, child |-> 0, check |-> FALSE, item |-> 0, pre |-> <<>>]

NoPass == [pc |-> "idle", song |-> BaseSong, k |-> 0, result |-> TRUE, clean |-> TRUE, seen |-> {}]

OthersIdle ==
    /\ call = NoCall
    /\ toggle = NoToggle
    /\ pass = NoPass
    /\ TableIdle

\* the freshly built tree
TreeInit ==
    /\ items = BuildTree
    /\ called = FALSE
    /\ was_constrained = FALSE

Init ==
    /\ TreeInit
    /\ OthersIdle

ToggleRoot ==
    /\ items' = TreeItem_toggle_checked(items, Root)
    /\ Record(items')
    /\ UNCHANGED others

ToggleFilter(n) ==
    /\ items' = FilterItem_toggle_checked(items, n)
    /\ Record(items')
    /\ UNCHANGED others

ToggleVariant(n) ==
    /\ items' = VariantItem_toggle_checked(items, n)
    /\ Record(items')
    /\ UNCHANGED others

Next ==
    \/ ToggleRoot
    \/ \E n \in FilterItems : ToggleFilter(n)
    \/ \E n \in VariantItems : ToggleVariant(n)

Spec == Init /\ [][Next]_vars

---------------------------------------------------------------------------
(* The pure functions, called on inputs of bounded sets *)

\* the SongMatch objects of the tree's variants
SongMatches ==
    UNION {{variants_of(Filter[k])[j] : j \in DOMAIN variants_of(Filter[k])} : k \in DOMAIN Filter}

MatchesSong ==
    /\ \E data \in SongMatches, song \in Songs :
          call' = [fn |-> "matches_song", data |-> data, song |-> song,
                   result |-> matches_song(data, song)]
    /\ UNCHANGED treeVars
    /\ UNCHANGED <<toggle, pass>>
    /\ UNCHANGED tableVars

\* json.dump(song, cls=UsdbSongEncoder), then json.load(object_hook=from_json)
EncodeDecode ==
    /\ \E song \in UsdbSongObjects :
          call' = [fn |-> "json", song |-> song, encoded |-> UsdbSongEncoder(song),
                   decoded |-> from_json(UsdbSongEncoder(song))]
    /\ UNCHANGED treeVars
    /\ UNCHANGED <<toggle, pass>>
    /\ UNCHANGED tableVars

NextPure ==
    \/ MatchesSong
    \/ EncodeDecode

SpecPure == Init /\ [][NextPure]_vars

---------------------------------------------------------------------------
(* Building the tree item by item, with toggles in between *)

\* the most items a tree under construction holds, the root included
MaxItems == 6

\* the filter kinds a tree under construction draws from
BuildFilters == {"GOLDEN_NOTES", "VIEWS"}

InitBuild ==
    /\ items = <<RootItem>>
    /\ called = FALSE
    /\ was_constrained = FALSE
    /\ OthersIdle

\* FilterItem(data=filter, parent=root), then root.add_child(item)
AddFilter(filter) ==
    /\ Len(items) < MaxItems
    /\ LET h == Append(items, FilterItem(filter, Root))
       IN  items' = add_child(h, Root, Len(h))
    /\ UNCHANGED <<called, was_constrained>>
    /\ UNCHANGED others

\* VariantItem(data=variant, parent=p), then f.add_child(item): the variant is
\* the next one of the filter's kind, the parent handed to the constructor is
\* any FilterItem
AddVariant(f, p) ==
    /\ Len(items) < MaxItems
    /\ Len(items[f].children) < Len(variants_of(items[f].data))
    /\ LET variant == variants_of(items[f].data)[Len(items[f].children) + 1]
           h == Append(items, VariantItem(variant, p))
       IN  items' = add_child(h, f, Len(h))
    /\ UNCHANGED <<called, was_constrained>>
    /\ UNCHANGED others

NextBuild ==
    \/ \E filter \in BuildFilters : AddFilter(filter)
    \/ \E f \in FilterItems, p \in FilterItems : AddVariant(f, p)
    \/ ToggleRoot
    \/ \E n \in FilterItems : ToggleFilter(n)
    \/ \E n \in VariantItems : ToggleVariant(n)

SpecBuild == InitBuild /\ [][NextBuild]_vars

---------------------------------------------------------------------------
(* Vocabulary of the properties *)

\* the child rows of a filter, as the code indexes them
Rows(h, f) == 0..(Len(h[f].children) - 1)

ChildAt(h, f, i) == h[f].children[i + 1]

\* FilterNode state {unconstrained}, with every flag it implies
Unconstrained(h, f) ==
    /\ h[f].checked_children = {}
    /\ \A i \in Rows(h, f) : ~h[ChildAt(h, f, i)].checked
    /\ ~h[f].checked
    /\ ~h[f].checkable

\* FilterNode state {constrained(j)}, with every flag it implies
ConstrainedTo(h, f, j) ==
    /\ h[f].checked_children = {j}
    /\ \A i \in Rows(h, f) : h[ChildAt(h, f, i)].checked <=> (i = j)
    /\ h[f].checked
    /\ h[f].checkable

\* filter_accepts of the acceptance query, as the specification words it
filter_accepts(h, f, song) ==
    \/ h[f].checked_children = {}
    \/ \E i \in h[f].checked_children : matches_song(h[ChildAt(h, f, i)].data, song)

---------------------------------------------------------------------------
(* Toggles running statement by statement while an acceptance pass reads  *)
(* the filters one by one: the tree has no lock of its own                 *)

\* the filters whose items are toggled while passes run
ConcFilters == {"GOLDEN_NOTES", "VIEWS"}

ToggleTargets ==
    {n \in DOMAIN items :
        \/ items[n].cls = "FilterItem" /\ items[n].data \in ConcFilters
        \/ items[n].cls = "VariantItem" /\ items[items[n].parent].data \in ConcFilters}

\* the songs of the passes
PassSongs == {BaseSong, OtherSong}

\* the acceptance conjunction on the tree h, as the specification words it
Conjunction(h, song) ==
    \A k \in DOMAIN h[Root].children : filter_accepts(h, h[Root].children[k], song)

\* what the start of a toggle does to the pass in progress: the pass is no
\* longer alone, and the tree state h the toggle will leave when it completes is
\* one more state the pass may report
Disturb(p, h) ==
    IF p.pc # "running" THEN p
    ELSE [p EXCEPT !.clean = FALSE, !.seen = @ \cup {Conjunction(h, p.song)}]

\* toggle_checked is called on the item n and reads self.checked
ToggleBegin(n) ==
    /\ toggle.pc = "idle"
    /\ IF items[n].cls = "FilterItem"
       THEN toggle' = IF items[n].checked
                      THEN [pc |-> "uncheck", self |-> n, child |-> 0, check |-> FALSE,
                            item |-> n, pre |-> items]
                      ELSE NoToggle
       ELSE toggle' = [pc |-> "uncheck", self |-> items[n].parent,
                       child |-> items[n].row_in_parent, check |-> ~items[n].checked,
                       item |-> n, pre |-> items]
    /\ pass' = IF toggle'.pc = "idle" THEN pass
               ELSE Disturb(pass, toggle_checked(items, n))
    /\ UNCHANGED <<items, called, was_constrained, call>>
    /\ UNCHANGED tableVars

\* uncheck_children, called by the toggle or as first statement of check_child
StepUncheck ==
    /\ toggle.pc = "uncheck"
    /\ items' = uncheck_children(items, toggle.self)
    /\ toggle' = IF toggle.check THEN [toggle EXCEPT !.pc = "insert"] ELSE NoToggle
    /\ UNCHANGED <<called, was_constrained, call, pass>>
    /\ UNCHANGED tableVars

StepInsert ==
    /\ toggle.pc = "insert"
    /\ items' = check_child_insert(items, toggle.self, toggle.child)
    /\ toggle' = [toggle EXCEPT !.pc = "flags"]
    /\ UNCHANGED <<called, was_constrained, call, pass>>
    /\ UNCHANGED tableVars

StepFlags ==
    /\ toggle.pc = "flags"
    /\ items' = check_child_flags(items, toggle.self, toggle.child)
    /\ toggle' = NoToggle
    /\ UNCHANGED <<called, was_constrained, call, pass>>
    /\ UNCHANGED tableVars

\* a pass starts on a song; the tree states it may report are the one it
\* starts in or, with a toggle half done, the one that toggle started from and
\* the one it will leave
PassBegin(song) ==
    /\ pass.pc = "idle"
    /\ pass' = [pc |-> "running", song |-> song, k |-> 1, result |-> TRUE,
                clean |-> (toggle.pc = "idle"),
                seen |-> IF toggle.pc = "idle" THEN {Conjunction(items, song)}
                         ELSE {Conjunction(toggle.pre, song),
                               Conjunction(toggle_checked(toggle.pre, toggle.item), song)}]
    /\ UNCHANGED <<items, called, was_constrained, call, toggle>>
    /\ UNCHANGED tableVars

\* the pass asks the next FilterItem
PassStep ==
    /\ pass.pc = "running"
    /\ LET f == items[Root].children[pass.k]
       IN  pass' = [pass EXCEPT
                       !.result = @ /\ accepts_song(items, f, pass.song),
                       !.k = @ + 1,
                       !.pc = IF pass.k = Len(items[Root].children) THEN "done" ELSE @]
    /\ UNCHANGED <<items, called, was_constrained, call, toggle>>
    /\ UNCHANGED tableVars

\* the result is used and the next pass may start
PassEnd ==
    /\ pass.pc = "done"
    /\ pass' = NoPass
    /\ UNCHANGED <<items, called, was_constrained, call, toggle>>
    /\ UNCHANGED tableVars

NextConc ==
    \/ \E n \in ToggleTargets : ToggleBegin(n)
    \/ StepUncheck
    \/ StepInsert
    \/ StepFlags
    \/ \E song \in PassSongs : PassBegin(song)
    \/ PassStep
    \/ PassEnd

SpecConc == Init /\ [][NextConc]_vars

---------------------------------------------------------------------------
(* The song table: song_table.py.  Downloads are queued from row lists and  *)
(* report back through the started and finished signals                     *)

DownloadStatus == {"NONE", "STAGED", "PENDING", "DOWNLOADING", "FAILED"}

\* DownloadStatus.can_be_downloaded: false for PENDING and DOWNLOADING
can_be_downloaded(status) == status \notin {"PENDING", "DOWNLOADING"}

\* the longest row list of a call
MaxRows == 2

\* the largest value of Progress._running
MaxRunning == 3

\* row lists: rows of the table, a row possibly several times
RowLists(table) == UNION {[1..n -> DOMAIN table] : n \in 1..MaxRows}

\* Progress.start that resets the counters at every call
Progress_start_always_resets(p, count) == [running |-> count, finished |-> 0]

\* Progress.start
Progress_start(p, count) ==
    LET q == IF p.running = p.finished THEN [running |-> 0, finished |-> 0] ELSE p
    IN  [q EXCEPT !.running = @ + count]

\* Progress.finish
Progress_finish(p, count) == [p EXCEPT !.finished = @ + count]

\* a process that queues the song and leaves its status as it is
process_without_pending(data) ==
    IF can_be_downloaded(data.status)
    THEN [data |-> data, changed |-> TRUE]
    ELSE [data |-> data, changed |-> FALSE]

\* process of _download: the song after the call, and the value returned
process(data) ==
    IF can_be_downloaded(data.status)
    THEN [data |-> [data EXCEPT !.status = "PENDING"], changed |-> TRUE]
    ELSE [data |-> data, changed |-> FALSE]

\* _process_rows with the process of _download, over the rows from k on: the
\* table and the list to_download after the loop
RECURSIVE process_rows(_, _, _, _)
process_rows(table, to_download, rows, k) ==
    IF k > Len(rows) THEN [songs |-> table, to_download |-> to_download]
    ELSE LET r == process(table[rows[k]])
         IN  process_rows([table EXCEPT ![rows[k]] = r.data],
                          IF r.changed THEN Append(to_download, r.data.song_id)
                          ELSE to_download,
                          rows, k + 1)

\* how often the id occurs in the list
Count(list, id) == Cardinality({i \in DOMAIN list : list[i] = id})

\* download_songs: every song of the list is handed to a worker
download_songs(flight, to_download) ==
    [id \in DOMAIN flight |->
        [flight[id] EXCEPT !.queued = @ + Count(to_download, id)]]

\* TableModel.row_for_id / TableModel.rows.get: the row of the id, or None
row_for_id(table, id) ==
    IF \E row \in DOMAIN table : table[row].song_id = id
    THEN Some(CHOOSE row \in DOMAIN table : table[row].song_id = id)
    ELSE None

\* TableModel.remove_row
remove_row(table, row) ==
    [k \in 1..(Len(table) - 1) |-> IF k < row THEN table[k] ELSE table[k + 1]]

\* TableModel.update_item: the song with the id of the data is replaced by it
update_item(table, data) ==
    [row \in DOMAIN table |->
        IF table[row].song_id = data.song_id THEN data ELSE table[row]]

\* SongTable._download, called by download_selection and download_batch with
\* their row lists
Download(rows) ==
    /\ progress.running + Len(rows) <= MaxRunning
    /\ LET done == process_rows(songs, <<>>, rows, 1)
       IN  /\ songs' = done.songs
           /\ IF done.to_download # <<>>
              THEN /\ progress' = Progress_start(progress, Len(done.to_download))
                   /\ inflight' = download_songs(inflight, done.to_download)
              ELSE UNCHANGED <<progress, inflight>>
    /\ UNCHANGED <<items, called, was_constrained, call, toggle, pass, last>>

\* SongTable._stage_rows, called by stage_selection
StageRows(rows) ==
    /\ songs' = [row \in DOMAIN songs |->
                    IF (\E k \in DOMAIN rows : rows[k] = row) /\ songs[row].status = "NONE"
                    THEN [songs[row] EXCEPT !.status = "STAGED"]
                    ELSE songs[row]]
    /\ UNCHANGED <<progress, inflight>>
    /\ UNCHANGED <<items, called, was_constrained, call, toggle, pass, last>>

\* an _on_download_started that marks every song when it does not know the id
on_download_started_marks_all(table, song_id) ==
    LET row == row_for_id(table, song_id)
    IN  IF row = None THEN [r \in DOMAIN table |-> [table[r] EXCEPT !.status = "DOWNLOADING"]]
        ELSE [table EXCEPT ![row[1]].status = "DOWNLOADING"]

\* SongTable._on_download_started
on_download_started(table, song_id) ==
    LET row == row_for_id(table, song_id)
    IN  IF row = None THEN table
        ELSE [table EXCEPT ![row[1]].status = "DOWNLOADING"]

\* an _on_download_finished that keeps the row of a song that was not found
on_download_finished_keeps_row(table, result) ==
    IF result.error # "None"
    THEN LET row == row_for_id(table, result.song_id)
         IN  IF row = None THEN table
             ELSE [table EXCEPT ![row[1]].status = "FAILED"]
    ELSE IF result.data # None THEN update_item(table, result.data[1])
    ELSE table

\* SongTable._on_download_finished, the table after it
on_download_finished(table, result) ==
    IF result.error # "None"
    THEN LET row == row_for_id(table, result.song_id)
         IN  IF row = None THEN table
             ELSE IF result.error = "NOT_FOUND" THEN remove_row(table, row[1])
             ELSE [table EXCEPT ![row[1]].status = "FAILED"]
    ELSE IF result.data # None THEN update_item(table, result.data[1])
    ELSE table

\* the results a worker reports for the song: an error, or no error with or
\* without data
DownloadResults(id) ==
    {[song_id |-> id, error |-> e, data |-> None] : e \in {"NOT_FOUND", "OTHER", "None"}}
        \cup {[song_id |-> id, error |-> "None",
               data |-> Some([song_id |-> id, status |-> st])] : st \in DownloadStatus}

\* a worker picks a queued song up and emits started
DownloadStarted(id) ==
    /\ inflight[id].queued > 0
    /\ inflight' = [inflight EXCEPT ![id].queued = @ - 1, ![id].started = @ + 1]
    /\ songs' = on_download_started(songs, id)
    /\ UNCHANGED progress
    /\ UNCHANGED <<items, called, was_constrained, call, toggle, pass, last>>

\* a worker is done with a song, started or not, and emits finished: once per
\* queued song
DownloadFinished(id, result) ==
    /\ inflight[id].queued + inflight[id].started > 0
    /\ inflight' = IF inflight[id].started > 0
                   THEN [inflight EXCEPT ![id].started = @ - 1]
                   ELSE [inflight EXCEPT ![id].queued = @ - 1]
    /\ progress' = Progress_finish(progress, 1)
    /\ songs' = on_download_finished(songs, result)
    /\ UNCHANGED <<items, called, was_constrained, call, toggle, pass, last>>

NextTable ==
    \/ \E rows \in RowLists(songs) : Download(rows)
    \/ \E rows \in RowLists(songs) : StageRows(rows)
    \/ \E id \in TableSongIds : DownloadStarted(id)
    \/ \E id \in TableSongIds : \E result \in DownloadResults(id) : DownloadFinished(id, result)

SpecTable == Init /\ [][NextTable]_vars

---------------------------------------------------------------------------
(* The song table's handlers one by one: the user's commands on any row     *)
(* list, and signals for any song id, in any order                          *)

\* DownloadStatus.can_be_unstaged
can_be_unstaged(status) == status \in {"STAGED", "FAILED"}

\* a process of _stage_rows that stages a song whatever its status
stage_process_any_status(data) ==
    [data |-> [data EXCEPT !.status = "STAGED"], changed |-> TRUE]

\* process of _stage_rows
stage_process(data) ==
    IF data.status = "NONE"
    THEN [data |-> [data EXCEPT !.status = "STAGED"], changed |-> TRUE]
    ELSE [data |-> data, changed |-> FALSE]

\* process of unstage_selection and of clear_batch
unstage_process(data) ==
    IF can_be_unstaged(data.status)
    THEN [data |-> [data EXCEPT !.status = "NONE"], changed |-> TRUE]
    ELSE [data |-> data, changed |-> FALSE]

\* _process_rows with one of the two processes above, over the rows from k on:
\* the table after the loop and the rows row_changed was emitted for
RECURSIVE process_rows_by(_, _, _, _, _)
process_rows_by(kind, table, changed, rows, k) ==
    IF k > Len(rows) THEN [songs |-> table, changed |-> changed]
    ELSE LET r == IF kind = "stage" THEN stage_process(table[rows[k]])
                  ELSE unstage_process(table[rows[k]])
         IN  process_rows_by(kind, [table EXCEPT ![rows[k]] = r.data],
                             IF r.changed THEN changed \cup {rows[k]} ELSE changed,
                             rows, k + 1)

\* SongTable._on_double_clicked on a row of the batch view or of the list view
on_double_clicked(table, row, view) ==
    IF view = "batch" /\ can_be_unstaged(table[row].status)
    THEN [songs |-> [table EXCEPT ![row].status = "NONE"], changed |-> {row}]
    ELSE IF view = "list" /\ table[row].status = "NONE"
    THEN [songs |-> [table EXCEPT ![row].status = "STAGED"], changed |-> {row}]
    ELSE [songs |-> table, changed |-> {}]

\* the rows of the id, as a set
RowsOf(table, id) ==
    IF row_for_id(table, id) = None THEN {} ELSE {row_for_id(table, id)[1]}

\* the rows of a set in ascending order
Ascending(rows) ==
    [k \in 1..Cardinality(rows) |->
        CHOOSE r \in rows : Cardinality({q \in rows : q < r}) = k - 1]

\* the row lists of the views: the selected rows, or all rows of the batch,
\* each row once
Selections(table) == {Ascending(rows) : rows \in (SUBSET DOMAIN table) \ {{}}}

\* download_selection / download_batch; the workers are left out here
DownloadCall(rows) ==
    /\ progress.running + Len(rows) <= MaxRunning
    /\ LET done == process_rows(songs, <<>>, rows, 1)
       IN  /\ songs' = done.songs
           /\ progress' = IF done.to_download # <<>>
                          THEN Progress_start(progress, Len(done.to_download))
                          ELSE progress
           /\ last' = [NoHandler EXCEPT
                          !.op = "download",
                          !.notified = {row \in DOMAIN songs : done.songs[row] # songs[row]}]
    /\ UNCHANGED <<items, called, was_constrained, call, toggle, pass, inflight>>

\* stage_selection, stage_song_ids, stage_local_songs: _stage_rows on their rows
StageCall(rows) ==
    /\ LET done == process_rows_by("stage", songs, {}, rows, 1)
       IN  /\ songs' = done.songs
           /\ last' = [NoHandler EXCEPT !.op = "stage", !.notified = done.changed]
    /\ UNCHANGED <<items, called, was_constrained, call, toggle, pass, progress, inflight>>

\* unstage_selection, clear_batch
UnstageCall(rows) ==
    /\ LET done == process_rows_by("unstage", songs, {}, rows, 1)
       IN  /\ songs' = done.songs
           /\ last' = [NoHandler EXCEPT !.op = "unstage", !.notified = done.changed]
    /\ UNCHANGED <<items, called, was_constrained, call, toggle, pass, progress, inflight>>

DoubleClicked(row, view) ==
    /\ LET done == on_double_clicked(songs, row, view)
       IN  /\ songs' = done.songs
           /\ last' = [NoHandler EXCEPT !.op = "double_click_" \o view,
                                        !.notified = done.changed]
    /\ UNCHANGED <<items, called, was_constrained, call, toggle, pass, progress, inflight>>

\* the started signal, for any song id
SignalStarted(id) ==
    /\ songs' = on_download_started(songs, id)
    /\ last' = [NoHandler EXCEPT !.op = "started", !.song_id = id,
                                 !.known = (row_for_id(songs, id) # None),
                                 !.notified = RowsOf(songs, id)]
    /\ UNCHANGED <<items, called, was_constrained, call, toggle, pass, progress, inflight>>

\* the finished signal, for any song id and result, while the progress bar
\* counts a download as running
SignalFinished(result) ==
    /\ progress.finished < progress.running
    /\ progress' = Progress_finish(progress, 1)
    /\ songs' = on_download_finished(songs, result)
    /\ last' = [op |-> "finished", song_id |-> result.song_id,
                known |-> (row_for_id(songs, result.song_id) # None),
                error |-> result.error, data |-> result.data,
                notified |-> IF result.error \in {"None", "NOT_FOUND"} THEN {}
                             ELSE RowsOf(songs, result.song_id)]
    /\ UNCHANGED <<items, called, was_constrained, call, toggle, pass, inflight>>

NextHandlers ==
    \/ \E rows \in Selections(songs) : DownloadCall(rows)
    \/ \E rows \in Selections(songs) : StageCall(rows)
    \/ \E rows \in Selections(songs) : UnstageCall(rows)
    \/ \E row \in DOMAIN songs : \E view \in {"list", "batch"} : DoubleClicked(row, view)
    \/ \E id \in TableSongIds : SignalStarted(id)
    \/ \E id \in TableSongIds : \E result \in DownloadResults(id) : SignalFinished(result)

SpecHandlers == Init /\ [][NextHandlers]_vars

---------------------------------------------------------------------------
(* Properties *)

\* C1: single-select invariant.  After any sequence of toggle_checked calls on
\* any items of a freshly built tree, every FilterItem's checked_children set has
\* cardinality 0 or 1.
C1_SingleSelect ==
    \A f \in FilterItems : Cardinality(items[f].checked_children) <= 1

\* two filters each hold one checked index
C1_Witness ==
    /\ called
    /\ \E f, g \in FilterItems :
          /\ f # g
          /\ Cardinality(items[f].checked_children) = 1
          /\ Cardinality(items[g].checked_children) = 1

\* C2: checked-state consistency.  After any sequence of toggle_checked calls,
\* every VariantItem v has v.checked iff v.row_in_parent is a member of
\* v.parent.checked_children.
C2_CheckedConsistency ==
    \A v \in VariantItems :
        items[v].checked <=> items[v].row_in_parent \in items[items[v].parent].checked_children

\* a filter with a checked and an unchecked variant
C2_Witness ==
    \E v, w \in VariantItems :
        /\ items[v].parent = items[w].parent
        /\ items[v].checked
        /\ items[v].row_in_parent \in items[items[v].parent].checked_children
        /\ ~items[w].checked

\* C3: derived filter flags.  In every reachable state each FilterItem is checked
\* iff its checked_children set is non-empty, its checkable flag equals its
\* checked flag and is_checkable(), and every VariantItem is checkable; before the
\* first call every FilterItem is unchecked and not checkable.
C3_DerivedFlags ==
    /\ \A f \in FilterItems :
          /\ items[f].checked <=> items[f].checked_children # {}
          /\ items[f].checkable = items[f].checked
          /\ items[f].checkable = is_checkable(items, f)
    /\ \A v \in VariantItems : items[v].checkable
    /\ ~called =>
          \A f \in FilterItems : ~items[f].checked /\ ~items[f].checkable

\* one filter checked and checkable, another neither
C3_Witness ==
    \E f, g \in FilterItems :
        /\ items[f].checked /\ items[f].checkable /\ items[f].checked_children # {}
        /\ ~items[g].checked /\ ~items[g].checkable /\ items[g].checked_children = {}

\* C4: switch replaces.  In any reachable state, for any FilterItem and distinct
\* rows i and j with variant i unchecked, toggling variant i and then variant j
\* leaves the filter constrained to j: checked_children = {j}, variant j checked,
\* every other child unchecked, the filter checked and checkable.
C4_SwitchReplaces ==
    \A f \in FilterItems : \A i, j \in Rows(items, f) :
        (i # j /\ ~items[ChildAt(items, f, i)].checked) =>
            LET h1 == VariantItem_toggle_checked(items, ChildAt(items, f, i))
                h2 == VariantItem_toggle_checked(h1, ChildAt(items, f, j))
            IN  ConstrainedTo(h2, f, j)

\* a filter already constrained to a third row k, from which the switch i, j starts
C4_Witness ==
    \E f \in FilterItems : \E i, j, k \in Rows(items, f) :
        /\ i # j /\ i # k /\ j # k
        /\ ConstrainedTo(items, f, k)
        /\ ConstrainedTo(VariantItem_toggle_checked(
                             VariantItem_toggle_checked(items, ChildAt(items, f, i)),
                             ChildAt(items, f, j)), f, j)

\* C5: re-toggle clears.  In any reachable state, toggling an unchecked variant
\* and then the same variant again leaves its filter unconstrained:
\* checked_children empty, every child unchecked, the filter neither checked nor
\* checkable.
C5_RetoggleClears ==
    \A v \in VariantItems :
        ~items[v].checked =>
            LET h1 == VariantItem_toggle_checked(items, v)
                h2 == VariantItem_toggle_checked(h1, v)
            IN  Unconstrained(h2, items[v].parent)

\* an unchecked variant whose sibling is checked: the two toggles clear the sibling too
C5_Witness ==
    \E v, w \in VariantItems :
        /\ items[v].parent = items[w].parent
        /\ ~items[v].checked
        /\ items[w].checked
        /\ Unconstrained(VariantItem_toggle_checked(VariantItem_toggle_checked(items, v), v),
                         items[v].parent)

\* C6: idempotent double-uncheck.  FilterItem.toggle_checked on a FilterItem
\* whose checked_children set is empty leaves the whole tree as it was, also when
\* it is repeated.
C6_FilterToggleNoOp ==
    \A f \in FilterItems :
        items[f].checked_children = {} =>
            /\ FilterItem_toggle_checked(items, f) = items
            /\ FilterItem_toggle_checked(FilterItem_toggle_checked(items, f), f) = items

\* an unconstrained filter in a tree that has a constrained one
C6_Witness ==
    /\ called
    /\ \E f, g \in FilterItems :
          /\ items[f].checked_children = {}
          /\ items[g].checked_children # {}
          /\ FilterItem_toggle_checked(items, f) = items

\* C7: the two toggle entry points agree.  For a FilterItem constrained to row i,
\* FilterItem.toggle_checked yields the same tree as toggle_checked on the checked
\* VariantItem i, and in it the filter is unconstrained.
C7_EntryPointsAgree ==
    \A f \in FilterItems : \A i \in Rows(items, f) :
        (items[f].checked_children = {i} /\ items[ChildAt(items, f, i)].checked) =>
            /\ FilterItem_toggle_checked(items, f)
                  = VariantItem_toggle_checked(items, ChildAt(items, f, i))
            /\ Unconstrained(FilterItem_toggle_checked(items, f), f)

\* a filter constrained to a row, both entry points leading to the same tree
C7_Witness ==
    \E f \in FilterItems : \E i \in Rows(items, f) :
        /\ ConstrainedTo(items, f, i)
        /\ FilterItem_toggle_checked(items, f) # items
        /\ FilterItem_toggle_checked(items, f)
              = VariantItem_toggle_checked(items, ChildAt(items, f, i))

\* C8: acceptance composition.  In every reachable state and for every song,
\* the tree accepts the song iff every FilterItem does, and a FilterItem accepts
\* it iff its checked_children set is empty or some child whose row is in the set
\* has a predicate that matches the song.
C8_AcceptanceComposition ==
    LET fs == FilterItems
    IN  \A s \in Songs :
            /\ \A f \in fs : accepts_song(items, f, s) <=> filter_accepts(items, f, s)
            /\ accepts(items, s) <=> \A f \in fs : filter_accepts(items, f, s)

\* two constrained filters: one song passes both, one passes the first only, one
\* passes neither
C8_Witness ==
    \E f, g \in FilterItems :
        /\ f # g
        /\ items[f].checked_children # {}
        /\ items[g].checked_children # {}
        /\ \E s \in Songs : accepts(items, s)
        /\ \E s \in Songs :
              accepts_song(items, f, s) /\ ~accepts_song(items, g, s) /\ ~accepts(items, s)
        /\ \E s \in Songs : ~accepts_song(items, f, s) /\ ~accepts_song(items, g, s)

\* C9: vacuous acceptance.  Whenever every FilterItem is unconstrained, initially
\* or after toggles, the tree accepts every song.
C9_VacuousAcceptance ==
    AllUnconstrained(items) => \A s \in Songs : accepts(items, s)

\* all filters unconstrained again, after calls that had constrained one
C9_Witness ==
    /\ was_constrained
    /\ AllUnconstrained(items)
    /\ \A s \in Songs : accepts(items, s)

\* C10: check-then-uncheck scenario.  From a tree with all filters unconstrained,
\* toggling a variant on makes the tree accept exactly the songs the variant's
\* predicate matches; toggling the same variant off makes it accept every song
\* again.
C10_CheckThenUncheck ==
    AllUnconstrained(items) =>
        \A v \in VariantItems :
            LET h1 == VariantItem_toggle_checked(items, v)
                h2 == VariantItem_toggle_checked(h1, v)
            IN  /\ \A s \in Songs : accepts(h1, s) <=> matches_song(items[v].data, s)
                /\ \A s \in Songs : accepts(h2, s)

\* a variant has been toggled on and off, all filters are unconstrained again, and the five-star variant tells the rating-5 song from the rating-0 song
C10_Witness ==
    /\ was_constrained
    /\ AllUnconstrained(items)
    /\ \E v \in VariantItems : \E s5, s0 \in Songs :
          /\ items[v].data = RatingVariant[6]
          /\ s5.rating = 5 /\ s0.rating = 0
          /\ accepts(VariantItem_toggle_checked(items, v), s5)
          /\ ~accepts(VariantItem_toggle_checked(items, v), s0)
          /\ accepts(VariantItem_toggle_checked(VariantItem_toggle_checked(items, v), v), s0)

\* the rating level a RatingVariant stands for: 0 for the 'None' variant
Level(data) == IF data.value = None THEN 0 ELSE data.value[1]

\* C11: rating predicate.  The rating variant of level L (0 being the 'None'
\* variant) matches a song of rating r iff r = L; a song without stars, which
\* from_html gives the rating 0, matches the 'None' variant, and every song
\* matches exactly one rating variant.
C11_RatingPredicate ==
    (call.fn = "matches_song" /\ call.data.cls = "RatingVariant") =>
        /\ call.result <=> (call.song.rating = Level(call.data))
        /\ call.song.rating = from_html_rating(<<>>) =>
              matches_song(RatingVariant[1], call.song)
        /\ Cardinality({k \in DOMAIN RatingVariant :
                           matches_song(RatingVariant[k], call.song)}) = 1

\* the index of the views bucket a view count falls in: 1..6
Bucket(views) == IF views >= 500 THEN 6 ELSE (views \div 100) + 1

\* C12: views predicate boundaries.  A views bucket [lo, hi) matches a song iff
\* lo <= views and (hi is unbounded or views < hi): 100 views match [100, 200)
\* and not [0, 100), 99 views match [0, 100) and not [100, 200), 999 views match
\* the unbounded bucket only.
C12_ViewsBoundaries ==
    (call.fn = "matches_song" /\ call.data.cls = "ViewsVariant") =>
        LET lo == call.data.value.lo
            hi == call.data.value.hi
            views == call.song.views
        IN  /\ call.result <=> (lo <= views /\ (hi = None \/ views < hi[1]))
            /\ call.result <=> (call.data = ViewsVariant[Bucket(views)])
            /\ views = 100 => (call.result <=> call.data = ViewsVariant[2])
            /\ views = 99 => (call.result <=> call.data = ViewsVariant[1])
            /\ views = 999 => (call.result <=> call.data = ViewsVariant[6])

\* the [100, 200) bucket was asked about a song with 100 views, and matched
C12_Witness ==
    /\ call.fn = "matches_song"
    /\ call.data = ViewsVariant[2]
    /\ call.song.views = 100
    /\ call.result

\* C17: JSON round trip.  Encoding a UsdbSong with UsdbSongEncoder and decoding
\* the result with from_json as object hook gives a UsdbSong equal to the first,
\* its song_id a SongId again.
C17_JsonRoundTrip ==
    call.fn = "json" =>
        /\ call.decoded = call.song
        /\ call.decoded.song_id.type = "SongId"
        /\ call.encoded.song_id.type = "int"

\* the song of the codec's test went through: empty edition, rating 0
C17_Witness ==
    /\ call.fn = "json"
    /\ call.song.song_id = SongId(123)
    /\ call.song.edition = EmptyString
    /\ call.song.rating = 0
    /\ call.encoded.song_id = PyInt(123)
    /\ call.decoded = call.song

\* C18: the views buckets partition the view counts.  Every view count is
\* matched by exactly one of the six ViewsVariant members, so no two of them
\* match the same song.
C18_ViewsPartition ==
    call.fn = "matches_song" =>
        Cardinality({k \in DOMAIN ViewsVariant :
                        matches_song(ViewsVariant[k], call.song)}) = 1

\* a song at the boundary 200 matched the bucket [200, 300) and no other
C18_Witness ==
    /\ call.fn = "matches_song"
    /\ call.song.views = 200
    /\ call.data = ViewsVariant[3]
    /\ call.result
    /\ \A k \in DOMAIN ViewsVariant : k # 3 => ~matches_song(ViewsVariant[k], call.song)

\* C14: root and generic toggles are inert.  In every reachable state a
\* toggle_checked on the RootItem, and the toggle_checked of a plain TreeItem on
\* any item, leave the whole tree as it is, and the root is neither checked nor
\* checkable.
C14_RootToggleInert ==
    /\ ~items[Root].checked
    /\ ~items[Root].checkable
    /\ items[Root].checked_children = {}
    /\ \A n \in DOMAIN items : TreeItem_toggle_checked(items, n) = items

\* toggles have been called, some filter is constrained, and the root's toggle
\* still gives the same tree
C14_Witness ==
    /\ called
    /\ ~AllUnconstrained(items)
    /\ TreeItem_toggle_checked(items, Root) = items
    /\ ~items[Root].checked

\* the items a toggle under the filter f is called on: f and its variants
Under(h, f) == {f} \cup {ChildAt(h, f, i) : i \in Rows(h, f)}

\* C15: toggles are local to one filter subtree.  A toggle_checked on a
\* FilterItem F or on a VariantItem under F leaves every other FilterItem's
\* checked_children, checked and checkable and the checked flag of every
\* VariantItem under another filter unchanged, and changes no item's children,
\* parent, row_in_parent or data.
C15_ToggleLocal ==
    \A f \in FilterItems :
        LET under == Under(items, f)
        IN  \A t \in under :
                LET h == toggle_checked(items, t)
                IN  /\ DOMAIN h = DOMAIN items
                    /\ \A n \in DOMAIN items \ under : h[n] = items[n]
                    /\ \A n \in under :
                          /\ h[n].children = items[n].children
                          /\ h[n].parent = items[n].parent
                          /\ h[n].row_in_parent = items[n].row_in_parent
                          /\ h[n].data = items[n].data
                          /\ h[n].cls = items[n].cls

\* two filters are constrained, and a toggle of a variant under the one changes
\* the tree while the other stays constrained to the same variant
C15_Witness ==
    \E f \in FilterItems : \E g \in FilterItems \ {f} : \E i \in Rows(items, f) :
        LET h == VariantItem_toggle_checked(items, ChildAt(items, f, i))
        IN  /\ items[f].checked_children # {}
            /\ items[g].checked_children # {}
            /\ h # items
            /\ h[g] = items[g]
            /\ \E j \in Rows(items, g) : ConstrainedTo(h, g, j)

\* n.parent.children[n.row_in_parent] is n, for the item n of the heap h
IndexedByParent(h, n) ==
    LET p == h[n].parent
    IN  /\ p \in DOMAIN h
        /\ h[n].row_in_parent + 1 \in DOMAIN h[p].children
        /\ h[p].children[h[n].row_in_parent + 1] = n

\* the children of the item n in h are still children in g, at the same rows
ChildrenKept(h, g, n) ==
    /\ Len(h[n].children) <= Len(g[n].children)
    /\ \A k \in DOMAIN h[n].children : g[n].children[k] = h[n].children[k]

\* C13: positional index invariant.  With every child added once through
\* add_child, after any interleaving of add_child calls and toggles every item n
\* but the root is its parent's child at row n.row_in_parent, its parent being
\* the item it was appended to (the only item that lists it); and no step
\* reorders, removes or re-indexes the children there are.
C13_PositionalIndex ==
    /\ [](\A n \in DOMAIN items \ {Root} :
            /\ IndexedByParent(items, n)
            /\ \A m \in DOMAIN items : \A k \in DOMAIN items[m].children :
                  items[m].children[k] = n =>
                      (m = items[n].parent /\ k = items[n].row_in_parent + 1))
    /\ [][\A n \in DOMAIN items :
            /\ n \in DOMAIN items'
            /\ ChildrenKept(items, items', n)
            /\ items'[n].row_in_parent = items[n].row_in_parent
            /\ items'[n].parent = items[n].parent]_vars

\* a filter got a second variant after its first one was checked, and the tree
\* has a second filter
C13_Witness ==
    /\ called
    /\ Len(items[Root].children) >= 2
    /\ \E f \in FilterItems :
          /\ Len(items[f].children) >= 2
          /\ items[f].checked_children = {0}
          /\ items[items[f].children[2]].row_in_parent = 1
          /\ items[items[f].children[2]].parent = f

\* C16 as stated: consistent snapshot.  A pass interleaved with the statements
\* of toggles returns the acceptance conjunction of one tree state that existed
\* between completed toggles: the state the pass started in, or the state
\* before or after a toggle that was in progress during the pass.
C16_ConsistentSnapshot ==
    pass.pc = "done" => pass.result \in pass.seen

\* C16, amended: a pass never changes the tree; a pass during which no
\* statement of a toggle runs returns the acceptance conjunction of the tree
\* state it started in; and a toggle run to completion leaves the tree
\* toggle_checked gives in one piece.
C16_SerialisedSnapshot ==
    /\ []((pass.pc = "done" /\ pass.clean) => pass.seen = {pass.result})
    /\ [][(toggle.pc # "idle" /\ toggle'.pc = "idle") =>
             items' = toggle_checked(toggle.pre, toggle.item)]_vars
    /\ [][pass' # pass /\ toggle' = toggle => items' = items]_vars

\* a pass that ran alone has rejected its song, two filters being constrained
C16_Witness ==
    /\ pass.pc = "done"
    /\ pass.clean
    /\ ~pass.result
    /\ pass.seen = {FALSE}
    /\ Cardinality({f \in FilterItems : items[f].checked_children # {}}) = 2

\* the downloads of the song under way
InFlight(flight, id) == flight[id].queued + flight[id].started

\* the status of the song in the table, None without a row
StatusOf(table, id) ==
    IF row_for_id(table, id) = None THEN None
    ELSE Some(table[row_for_id(table, id)[1]].status)

\* C19: no double enqueue.  With can_be_downloaded false for PENDING and
\* DOWNLOADING, a call of _download hands a song to download_songs at most once,
\* marks it PENDING, and hands over no song that was PENDING or DOWNLOADING; so
\* no song has two downloads under way, and a song with a download under way is
\* PENDING or DOWNLOADING.
C19_NoDoubleEnqueue ==
    /\ [](\A id \in TableSongIds :
            /\ InFlight(inflight, id) <= 1
            /\ InFlight(inflight, id) = 1 =>
                  StatusOf(songs, id) \in {Some("PENDING"), Some("DOWNLOADING")})
    /\ [][\A id \in TableSongIds :
            InFlight(inflight', id) > InFlight(inflight, id) =>
                /\ InFlight(inflight', id) = InFlight(inflight, id) + 1
                /\ StatusOf(songs, id) \notin {None, Some("PENDING"), Some("DOWNLOADING")}
                /\ StatusOf(songs', id) = Some("PENDING")]_vars

\* a row list that names a staged song twice queues it once, and a song being
\* downloaded is not queued by a call on its row
C19_Witness ==
    \E row \in DOMAIN songs : \E other \in DOMAIN songs :
        /\ songs[row].status = "STAGED"
        /\ process_rows(songs, <<>>, <<row, row>>, 1).to_download = <<songs[row].song_id>>
        /\ songs[other].status = "DOWNLOADING"
        /\ inflight[songs[other].song_id].started = 1
        /\ process_rows(songs, <<>>, <<other>>, 1).to_download = <<>>

\* the downloads under way, all songs together
Outstanding(flight) ==
    LET RECURSIVE Sum(_)
        Sum(n) == IF n = 0 THEN 0 ELSE InFlight(flight, n) + Sum(n - 1)
    IN  Sum(NumSongs)

\* C20: progress counters.  With one finished signal per queued song,
\* 0 <= _finished <= _running, and _running - _finished is the number of
\* downloads under way, so both are equal once all have finished; a call that
\* queues n > 0 songs adds n to _running, after a reset of both counters to 0 if
\* and only if it finds them equal; a call that queues none leaves them alone;
\* a finished signal adds 1 to _finished; no other step changes them.
C20_ProgressCounters ==
    /\ [](/\ 0 <= progress.finished
          /\ progress.finished <= progress.running
          /\ progress.running - progress.finished = Outstanding(inflight)
          /\ Outstanding(inflight) = 0 => progress.finished = progress.running)
    /\ [][LET queued == Outstanding(inflight') - Outstanding(inflight)
              reset == progress.running = progress.finished
          IN  /\ queued > 0 =>
                    /\ progress'.running = (IF reset THEN 0 ELSE progress.running) + queued
                    /\ progress'.finished = (IF reset THEN 0 ELSE progress.finished)
              /\ queued < 0 =>
                    /\ queued = -1
                    /\ progress'.finished = progress.finished + 1
                    /\ progress'.running = progress.running
              /\ queued = 0 => progress' = progress]_vars

\* a second call has queued a song while another was under way, one download
\* has finished and one has not
C20_Witness ==
    /\ progress.running = 2
    /\ progress.finished = 1
    /\ Outstanding(inflight) = 1
    /\ \E row \in DOMAIN songs : songs[row].status = "FAILED"

\* the handlers that stage, and those that unstage
StagingOps == {"stage", "double_click_list"}

UnstagingOps == {"unstage", "double_click_batch"}

\* C21: staging guards.  A staging operation changes a song only from NONE to
\* STAGED, an unstaging operation only to NONE and only from a status with
\* can_be_unstaged; a song whose status fails the guard keeps its status and gets
\* no row_changed, a song that passes it gets one; no row is added or removed; and
\* none of them turns a PENDING or DOWNLOADING song into a STAGED one.
C21_StagingGuards ==
    [][(last'.op \in StagingOps \cup UnstagingOps) =>
          /\ DOMAIN songs' = DOMAIN songs
          /\ last'.notified \subseteq DOMAIN songs
          /\ \A row \in DOMAIN songs :
                LET old == songs[row].status
                    new == songs'[row].status
                    guard == IF last'.op \in StagingOps THEN old = "NONE"
                             ELSE can_be_unstaged(old)
                    target == IF last'.op \in StagingOps THEN "STAGED" ELSE "NONE"
                IN  /\ songs'[row].song_id = songs[row].song_id
                    /\ new # old => (guard /\ new = target)
                    /\ ~guard => (new = old /\ row \notin last'.notified)
                    /\ (guard /\ row \in last'.notified) => new = target
                    /\ (row \in last'.notified) => guard
                    /\ old \in {"PENDING", "DOWNLOADING"} => new # "STAGED"]_vars

\* a staging call has staged one song and passed over one that is PENDING or
\* DOWNLOADING
C21_Witness ==
    /\ last.op = "stage"
    /\ \E row \in DOMAIN songs : \E other \in DOMAIN songs :
          /\ row \in last.notified
          /\ songs[row].status = "STAGED"
          /\ other \notin last.notified
          /\ songs[other].status \in {"PENDING", "DOWNLOADING"}

\* C22: signals for unknown songs are ignored.  A started signal for a song id
\* without a row changes no song and removes no row; a finished signal with an
\* error for such an id does neither, and adds 1 to the finished counter of the
\* progress, its only effect.
C22_UnknownSongsIgnored ==
    [][/\ (last'.op = "started" /\ ~last'.known) =>
             /\ songs' = songs
             /\ progress' = progress
             /\ last'.notified = {}
       /\ (last'.op = "finished" /\ ~last'.known /\ last'.error # "None") =>
             /\ songs' = songs
             /\ progress' = [progress EXCEPT !.finished = @ + 1]
             /\ last'.notified = {}]_vars

\* a row is gone, and a finished signal with an error has come for its song:
\* the other song is as it was when the row was removed
C22_Witness ==
    /\ last.op = "finished"
    /\ ~last.known
    /\ last.error = "OTHER"
    /\ Len(songs) = NumSongs - 1
    /\ \A row \in DOMAIN songs : songs[row].song_id # last.song_id
    /\ progress.finished >= 2

\* the table without the song of the id, the other songs in their order
WithoutSong(table, id) == SelectSeq(table, LAMBDA data : data.song_id # id)

\* C23: finished-signal outcomes.  For a song with a row: a finished signal with
\* the error NOT_FOUND removes the row and leaves the other songs as they are;
\* with another error it sets the status of that song, and nothing else, to
\* FAILED; without error it replaces the song by the result's data if there is
\* data and changes nothing if there is none; each adds 1 to the finished
\* counter.  A started signal sets the status of the song to DOWNLOADING whatever
\* it was, and changes nothing else.
C23_FinishedOutcomes ==
    [][/\ (last'.op = "finished" /\ last'.known) =>
             LET row == CHOOSE r \in DOMAIN songs : songs[r].song_id = last'.song_id
             IN  /\ progress' = [progress EXCEPT !.finished = @ + 1]
                 /\ last'.error = "NOT_FOUND" =>
                       songs' = WithoutSong(songs, last'.song_id)
                 /\ last'.error = "OTHER" =>
                       songs' = [songs EXCEPT ![row].status = "FAILED"]
                 /\ (last'.error = "None" /\ last'.data # None) =>
                       songs' = [songs EXCEPT ![row] = last'.data[1]]
                 /\ (last'.error = "None" /\ last'.data = None) =>
                       songs' = songs
       /\ (last'.op = "started" /\ last'.known) =>
             LET row == CHOOSE r \in DOMAIN songs : songs[r].song_id = last'.song_id
             IN  /\ songs' = [songs EXCEPT ![row].status = "DOWNLOADING"]
                 /\ progress' = progress]_vars

\* the first song was not found and its row is gone; the song behind it has
\* moved up, still being downloaded
C23_Witness ==
    /\ last.op = "finished"
    /\ last.known
    /\ last.error = "NOT_FOUND"
    /\ last.song_id = 1
    /\ Len(songs) = NumSongs - 1
    /\ songs[1] = [song_id |-> 2, status |-> "DOWNLOADING"]

===========================================================================
